---- MODULE Spec2Model ----
(***************************************************************************)
(* Model of pkg/state/state_run.go: the scatter-gather worker pool         *)
(* (scatterGather, iterateOnReleases), its two callers                     *)
(* (scatterGatherReleases, dagAwareReverseIterateOnReleases), and of        *)
(* desiredStateLoader.Load in pkg/app/desired_state_file_loader.go.        *)
(*                                                                         *)
(* Goroutines are modelled as processes with a program counter.  The two   *)
(* channels of iterateOnReleases are unbuffered, so a send and its receive *)
(* are one rendezvous step.  Every pool run keeps its own record in        *)
(* `pool`, so goroutines of an earlier run stay visible (and would stay    *)
(* schedulable) after the run has returned.                                *)
(***************************************************************************)
EXTENDS Integers, Sequences, FiniteSets, TLC

\* Bounds of the model: the releases declared for a single pool run, the
\* releases declared for a dependency-aware run, and the largest concurrency
\* a caller asks for.
MaxReleases == 2
MaxDagReleases == 3
MaxConcurrency == 3

\* Bounds of the loader's model: the releases and the sub-helmfiles of a
\* loaded state file.
MaxLoadReleases == 8
MaxHelmfiles == 3

\* Release names, and a name no release declares.
MaxName == IF MaxReleases > MaxDagReleases THEN MaxReleases ELSE MaxDagReleases
Names == 1..MaxName
Undeclared == MaxName + 1

\* *bool of ReleaseSpec.Tillerless: nil, or a pointer to true / false.
TillerlessValues == {"nil", "true", "false"}

\* The values `do` returns.
DoResults == {"nil", "err"}

VARIABLES
    st,          \* the HelmState: Releases, HelmDefaults.Tillerless
    pc,          \* the calling goroutine: "idle", "loop", "pool", "returned"
    call,        \* the entry point called and its concurrency argument
    plan,        \* dagAwareReverseIterateOnReleases: plan
    groupIndex,  \* dagAwareReverseIterateOnReleases: groupIndex (1-based)
    pool,        \* one record per iterateOnReleases call, in call order
    ret,         \* the []error returned to the caller (<<>> is nil)
    ld,          \* the desiredStateLoader: KubeContext, namespace, Reverse
    loaded       \* what Load returned: a state pointer (<<>> is nil), an error

vars == <<st, pc, call, plan, groupIndex, pool, ret, ld, loaded>>

----------------------------------------------------------------------------
\* Helpers on sequences and sets.

Range(s) == {s[i] : i \in DOMAIN s}

RECURSIVE SetToSeq(_)
SetToSeq(S) ==
    IF S = {} THEN <<>>
    ELSE LET m == CHOOSE x \in S : \A y \in S : x <= y
         IN <<m>> \o SetToSeq(S \ {m})

\* The sub-lists of a list that keep its order.
RECURSIVE SubSeqs(_)
SubSeqs(s) ==
    IF s = <<>> THEN {<<>>}
    ELSE LET rest == SubSeqs(Tail(s))
         IN rest \cup {<<Head(s)>> \o t : t \in rest}

----------------------------------------------------------------------------
\* The HelmState.

ReleaseSpec(name, needs, tillerless) ==
    [Name |-> name, Needs |-> needs, Tillerless |-> tillerless]

\* The needs a release named i may declare: other releases, declared or not.
NeedsOf(i, n) == SUBSET (((1..n) \ {i}) \cup {Undeclared})

\* Release lists of 0..MaxReleases releases with distinct names 1..n,
\* without needs.
ReleaseLists ==
    UNION {
        {[i \in 1..n |-> ReleaseSpec(i, {}, till[i])] :
            till \in [1..n -> TillerlessValues]}
        : n \in 0..MaxReleases}

\* Release lists of 0..MaxDagReleases releases with distinct names 1..n and
\* any needs among each other or on an undeclared release.
ReleaseListsWithNeeds ==
    UNION {
        {[i \in 1..n |-> ReleaseSpec(i, needs[i], till[i])] :
            needs \in {f \in [1..n -> SUBSET ((1..n) \cup {Undeclared})] :
                          \A i \in 1..n : f[i] \in NeedsOf(i, n)},
            till \in [1..n -> TillerlessValues]}
        : n \in 0..MaxDagReleases}

\* Release lists of 0..MaxReleases releases with distinct names 1..n and
\* any needs among each other or on an undeclared release.
ReleaseListsForward ==
    UNION {
        {[i \in 1..n |-> ReleaseSpec(i, needs[i], till[i])] :
            needs \in {f \in [1..n -> SUBSET ((1..n) \cup {Undeclared})] :
                          \A i \in 1..n : f[i] \in NeedsOf(i, n)},
            till \in [1..n -> TillerlessValues]}
        : n \in 0..MaxReleases}

----------------------------------------------------------------------------
\* scatterGather: the resolved concurrency.

\* Clamp without its upper bound.
Clamp_NoUpperBound(concurrency, items) ==
    IF concurrency < 1 THEN items ELSE concurrency

\* state_run.go:19-21
Clamp(concurrency, items) ==
    IF concurrency < 1 \/ concurrency > items THEN items ELSE concurrency

\* TillerlessStep without the run-wide default.
TillerlessStep_NoDefault(concurrency, r, defaults) ==
    IF r.Tillerless = "true" THEN 1 ELSE concurrency

\* TillerlessStep in which the run-wide default beats a release's override.
TillerlessStep_DefaultWins(concurrency, r, defaults) ==
    IF r.Tillerless = "true" \/ defaults THEN 1 ELSE concurrency

\* state_run.go:23-31, the loop over st.Releases, one iteration.
TillerlessStep(concurrency, r, defaults) ==
    IF r.Tillerless # "nil"
    THEN IF r.Tillerless = "true" THEN 1 ELSE concurrency
    ELSE IF defaults THEN 1 ELSE concurrency

RECURSIVE TillerlessLoop(_, _, _)
TillerlessLoop(concurrency, releases, defaults) ==
    IF releases = <<>> THEN concurrency
    ELSE TillerlessLoop(TillerlessStep(concurrency, Head(releases), defaults),
                        Tail(releases), defaults)

\* state_run.go:19-31
ResolveConcurrency(state, concurrency, items) ==
    TillerlessLoop(Clamp(concurrency, items), state.Releases,
                   state.HelmDefaults.Tillerless)

\* WaitGroupAdd that counts one goroutine too many.
WaitGroupAdd_OneMore(concurrency) == concurrency + 1

\* state_run.go:35, the counter of the WaitGroup after Add.
WaitGroupAdd(concurrency) == concurrency

\* Workers with a loop that starts at 0.
Workers_FromZero(concurrency) == 0..concurrency

\* state_run.go:39, the ids of the worker goroutines started
Workers(concurrency) == 1..concurrency

\* AggregatorDone with a loop that stops one result early.
AggregatorDone_OneEarly(received, inputs) == received >= Len(inputs) - 1

\* state_run.go:87: the aggregator leaves its loop after len(inputs) results
AggregatorDone(received, inputs) == received = Len(inputs)

\* state_run.go:60-71 and 33-46: a pool run right after scatterGather has
\* started the producer and the workers and entered aggregateIntermediates.
NewPoolRun(state, concurrency, inputs) ==
    LET n == Len(inputs)
        c == ResolveConcurrency(state, concurrency, n)
    IN [inputs      |-> inputs,
        concurrency |-> c,
        sent        |-> 0,           \* producer: releases handed over
        closed      |-> FALSE,       \* close(releases) done
        worker      |-> [w \in Workers(c) |-> [pc |-> "range", release |-> 0, err |-> "nil"]],
        wg          |-> WaitGroupAdd(c),
        received    |-> 0,           \* aggregator: the loop index i
        errs        |-> <<>>,
        sg          |-> IF AggregatorDone(0, inputs) THEN "wait" ELSE "aggregate",
        \* history, for the properties only
        invoked     |-> [x \in Names |-> 0],   \* calls of do, per release name
        outcomes    |-> [x \in Names |-> 0],   \* results received, per release name
        completed   |-> <<>>,                  \* returns of do, in order
        arrived     |-> <<>>]                  \* results received, in order

----------------------------------------------------------------------------
\* The dependency plan (github.com/variantdev/dag, not part of the sources).

releaseToID(r) == r.Name

RECURSIVE Layers(_, _, _)
Layers(needs, remaining, placed) ==
    LET eligible == {id \in remaining : needs[id] \subseteq placed}
    IN IF remaining = {} THEN <<>>
       ELSE IF eligible = {} THEN <<{}>>     \* no progress: a cycle
       ELSE <<eligible>> \o Layers(needs, remaining \ eligible, placed \cup eligible)

\* The graph built without the dependencies of the releases.
BuildGraph_NoNeeds(releases) ==
    [id \in {releaseToID(releases[i]) : i \in DOMAIN releases} |-> {}]

\* state_run.go:114-122: d.Add(id, dag.Dependencies(r.Needs)) for every
\* release; the graph as a function from an id to the ids it needs.
BuildGraph(releases) ==
    LET ids   == {releaseToID(releases[i]) : i \in DOMAIN releases}
        index == [id \in ids |->
                    CHOOSE i \in DOMAIN releases : releaseToID(releases[i]) = id]
    IN [id \in ids |-> releases[index[id]].Needs]

\* d.Plan() on a graph: the groups, or an error and no groups.
DagPlan(graph) ==
    LET ids    == DOMAIN graph
        layers == Layers(graph, ids, {})
    IN IF \E id \in ids : ~(graph[id] \subseteq ids)
       THEN [err |-> "unresolved", groups |-> <<>>]
       ELSE IF \E k \in DOMAIN layers : layers[k] = {}
       THEN [err |-> "cycle", groups |-> <<>>]
       ELSE [err |-> "nil", groups |-> [k \in DOMAIN layers |-> SetToSeq(layers[k])]]

\* state_run.go:114-124: the graph of the releases and its plan.
Plan(releases) == DagPlan(BuildGraph(releases))

\* state_run.go:110-122, idToRelease
idToRelease(state, id) ==
    LET i == CHOOSE i \in DOMAIN state.Releases :
                 /\ releaseToID(state.Releases[i]) = id
                 /\ \A j \in DOMAIN state.Releases :
                        releaseToID(state.Releases[j]) = id => j <= i
    IN state.Releases[i]

\* state_run.go:134-142, releasesInGroup
ReleasesInGroup(state, group) ==
    [k \in DOMAIN group |-> idToRelease(state, group[k])]

----------------------------------------------------------------------------
\* Initial state: a loaded HelmState, nothing called yet.

HelmStates(lists) ==
    {[Releases |-> rs, HelmDefaults |-> [Tillerless |-> d]] :
        rs \in lists, d \in BOOLEAN}

\* A loader without options, and Load not called.
NoOptions == [KubeContext |-> "", namespace |-> "", Reverse |-> FALSE]
NotLoaded == [called |-> FALSE, st |-> <<>>, err |-> "nil"]

NothingCalled ==
    /\ ld = NoOptions
    /\ loaded = NotLoaded
    /\ pc = "idle"
    /\ call = [fn |-> "none", concurrency |-> 0]
    /\ plan = <<>>
    /\ groupIndex = 0
    /\ pool = <<>>
    /\ ret = <<>>

Init ==
    /\ st \in HelmStates(ReleaseLists)
    /\ NothingCalled

InitDag ==
    /\ st \in HelmStates(ReleaseListsWithNeeds)
    /\ NothingCalled

InitForward ==
    /\ st \in HelmStates(ReleaseListsForward)
    /\ NothingCalled

----------------------------------------------------------------------------
\* The entry points.

Concurrencies == 0..MaxConcurrency

\* StartPool whose scatterGather looks at the releases it was given only.
StartPool_ScanInputs(concurrency, inputs) ==
    pool' = Append(pool, NewPoolRun([st EXCEPT !.Releases = inputs], concurrency, inputs))

\* state_run.go:60-71: iterateOnReleases up to the point where scatterGather
\* has started its goroutines.
StartPool(concurrency, inputs) ==
    pool' = Append(pool, NewPoolRun(st, concurrency, inputs))

\* state_run.go:54-58
ScatterGatherReleases(concurrency) ==
    /\ pc = "idle"
    /\ call' = [fn |-> "scatterGatherReleases", concurrency |-> concurrency]
    /\ StartPool(concurrency, st.Releases)
    /\ pc' = "pool"
    /\ UNCHANGED <<ld, loaded, st, plan, groupIndex, ret>>

\* state_run.go:60-71, called with a sub-list of the declared releases
IterateOnReleases(concurrency, inputs) ==
    /\ pc = "idle"
    /\ call' = [fn |-> "iterateOnReleases", concurrency |-> concurrency]
    /\ StartPool(concurrency, inputs)
    /\ pc' = "pool"
    /\ UNCHANGED <<ld, loaded, st, plan, groupIndex, ret>>

\* FirstGroup of a loop that starts at the first group.
FirstGroup_Forward(p) == IF Len(p) = 0 THEN 0 ELSE 1

\* NextGroup of a loop that never moves on.
NextGroup_Stay(i) == i

\* state_run.go:133, the bounds of the loop over the groups
FirstGroup(p) == Len(p)
NextGroup(i) == i - 1
GroupsLeft(i, p) == i >= 1

\* PlanFailed that never sees the error of d.Plan().
PlanFailed_Ignored(p) == FALSE

\* state_run.go:125: the test on the error of d.Plan()
PlanFailed(p) == p.err # "nil"

\* state_run.go:107-131
DagAwareReverseIterateOnReleases(concurrency) ==
    /\ pc = "idle"
    /\ call' = [fn |-> "dagAwareReverseIterateOnReleases", concurrency |-> concurrency]
    /\ LET p == Plan(st.Releases)
       IN IF PlanFailed(p)
          THEN /\ ret' = <<[release |-> 0, err |-> p.err]>>
               /\ pc' = "returned"
               /\ UNCHANGED <<plan, groupIndex>>
          ELSE /\ plan' = p.groups
               /\ groupIndex' = FirstGroup(p.groups)
               /\ pc' = "loop"
               /\ UNCHANGED ret
    /\ UNCHANGED <<ld, loaded, st, pool>>

\* state_run.go:133-146: the loop head and the call of iterateOnReleases
DagLoop ==
    /\ pc = "loop"
    /\ IF GroupsLeft(groupIndex, plan)
       THEN /\ StartPool(call.concurrency, ReleasesInGroup(st, plan[groupIndex]))
            /\ pc' = "pool"
            /\ UNCHANGED ret
       ELSE /\ ret' = <<>>                       \* line 153: return nil
            /\ pc' = "returned"
            /\ UNCHANGED pool
    /\ UNCHANGED <<ld, loaded, st, call, plan, groupIndex>>

----------------------------------------------------------------------------
\* The goroutines of pool run r.

Runs == DOMAIN pool

\* fmt.Errorf("release \"%s\" failed: %v", r.release.Name, r.err), line 91
ReleaseError(name, err) == [release |-> name, err |-> err]

\* Aggregate that assigns the error list instead of appending to it.
Aggregate_KeepLast(errs, name, err) ==
    IF err # "nil" THEN <<ReleaseError(name, err)>> ELSE errs

\* Aggregate that puts a new error in front of the list.
Aggregate_Prepend(errs, name, err) ==
    IF err # "nil" THEN <<ReleaseError(name, err)>> \o errs ELSE errs

\* state_run.go:90-94: the aggregator's handling of one received result
Aggregate(errs, name, err) ==
    IF err # "nil" THEN Append(errs, ReleaseError(name, err)) ELSE errs

\* state_run.go:73-75 and 79-80: the producer hands the next release to a
\* worker waiting in `range releases`; the worker calls do(release, id).
ProducerSend(r, w) ==
    LET p == pool[r]
    IN /\ ~p.closed
       /\ p.sent < Len(p.inputs)
       /\ w \in DOMAIN p.worker
       /\ p.worker[w].pc = "range"
       /\ LET name == p.inputs[p.sent + 1].Name
          IN pool' = [pool EXCEPT ![r] =
                 [p EXCEPT !.sent = p.sent + 1,
                           !.worker[w] = [pc |-> "do", release |-> name, err |-> "nil"],
                           !.invoked[name] = @ + 1]]
       /\ UNCHANGED <<ld, loaded, st, pc, call, plan, groupIndex, ret>>

\* state_run.go:76
ProducerClose(r) ==
    LET p == pool[r]
    IN /\ ~p.closed
       /\ p.sent = Len(p.inputs)
       /\ pool' = [pool EXCEPT ![r] = [p EXCEPT !.closed = TRUE]]
       /\ UNCHANGED <<ld, loaded, st, pc, call, plan, groupIndex, ret>>

\* state_run.go:80: do returns, with an error or without
DoReturn(r, w, err) ==
    LET p == pool[r]
    IN /\ w \in DOMAIN p.worker
       /\ p.worker[w].pc = "do"
       /\ pool' = [pool EXCEPT ![r] =
              [p EXCEPT !.worker[w] = [@ EXCEPT !.pc = "send", !.err = err],
                        !.completed = Append(@, ReleaseError(p.worker[w].release, err))]]
       /\ UNCHANGED <<ld, loaded, st, pc, call, plan, groupIndex, ret>>

\* state_run.go:82 and 87-96: the worker's send on results meets the
\* aggregator's receive.
WorkerSend(r, w) ==
    LET p == pool[r]
    IN /\ w \in DOMAIN p.worker
       /\ p.worker[w].pc = "send"
       /\ p.sg = "aggregate"
       /\ LET wk == p.worker[w]
          IN pool' = [pool EXCEPT ![r] =
                 [p EXCEPT !.worker[w] = [pc |-> "range", release |-> 0, err |-> "nil"],
                           !.received = p.received + 1,
                           !.errs = Aggregate(p.errs, wk.release, wk.err),
                           !.outcomes[wk.release] = @ + 1,
                           !.arrived = Append(@, ReleaseError(wk.release, wk.err)),
                           !.sg = IF AggregatorDone(p.received + 1, p.inputs)
                                  THEN "wait" ELSE "aggregate"]]
       /\ UNCHANGED <<ld, loaded, st, pc, call, plan, groupIndex, ret>>

\* state_run.go:79 and 44: the range loop ends on the closed channel and the
\* worker calls waitGroup.Done()
WorkerDone(r, w) ==
    LET p == pool[r]
    IN /\ w \in DOMAIN p.worker
       /\ p.worker[w].pc = "range"
       /\ p.closed
       /\ pool' = [pool EXCEPT ![r] =
              [p EXCEPT !.worker[w].pc = "done", !.wg = p.wg - 1]]
       /\ UNCHANGED <<ld, loaded, st, pc, call, plan, groupIndex, ret>>

\* WaitOver without the wait for the workers.
WaitOver_NoWait(p) == p.sg = "wait"

\* state_run.go:51: waitGroup.Wait() lets scatterGather return
WaitOver(p) == p.sg = "wait" /\ p.wg = 0

\* state_run.go:51-52 and 100-104: scatterGather and iterateOnReleases
\* return to scatterGatherReleases or to the direct caller.
IterateReturn ==
    /\ pc = "pool"
    /\ call.fn \in {"scatterGatherReleases", "iterateOnReleases"}
    /\ LET r == Len(pool)
       IN /\ WaitOver(pool[r])
          /\ pool' = [pool EXCEPT ![r].sg = "returned"]
          /\ ret' = pool[r].errs
    /\ pc' = "returned"
    /\ UNCHANGED <<ld, loaded, st, call, plan, groupIndex>>

\* GroupFailed that lets a single error pass.
GroupFailed_MoreThanOne(errs) == Len(errs) > 1

\* state_run.go:148: the test on the group's error list
GroupFailed(errs) == Len(errs) > 0

\* state_run.go:51-52, 100-104 and 146-151: the pool run of a group returns
\* to dagAwareReverseIterateOnReleases.
DagGroupReturn ==
    /\ pc = "pool"
    /\ call.fn = "dagAwareReverseIterateOnReleases"
    /\ LET r == Len(pool)
       IN /\ WaitOver(pool[r])
          /\ pool' = [pool EXCEPT ![r].sg = "returned"]
          /\ IF GroupFailed(pool[r].errs)
             THEN /\ ret' = pool[r].errs
                  /\ pc' = "returned"
                  /\ UNCHANGED groupIndex
             ELSE /\ groupIndex' = NextGroup(groupIndex)
                  /\ pc' = "loop"
                  /\ UNCHANGED ret
    /\ UNCHANGED <<ld, loaded, st, call, plan>>

PoolStep ==
    \/ \E r \in Runs : \E w \in DOMAIN pool[r].worker : ProducerSend(r, w)
    \/ \E r \in Runs : ProducerClose(r)
    \/ \E r \in Runs : \E w \in DOMAIN pool[r].worker : \E e \in DoResults :
          DoReturn(r, w, e)
    \/ \E r \in Runs : \E w \in DOMAIN pool[r].worker : WorkerSend(r, w)
    \/ \E r \in Runs : \E w \in DOMAIN pool[r].worker : WorkerDone(r, w)

\* One pool run over the declared releases or over a sub-list of them.
Next ==
    \/ \E c \in Concurrencies : ScatterGatherReleases(c)
    \/ \E c \in Concurrencies : \E inputs \in SubSeqs(st.Releases) :
          IterateOnReleases(c, inputs)
    \/ PoolStep
    \/ IterateReturn

Spec == Init /\ [][Next]_vars

\* The same with the scheduling the Go runtime gives: a goroutine that can
\* run does run, and a call of do returns.
SpecLive ==
    /\ Init
    /\ [][Next]_vars
    /\ WF_vars(PoolStep)
    /\ WF_vars(IterateReturn)

\* The dependency-aware run, group by group.
NextDag ==
    \/ \E c \in Concurrencies : DagAwareReverseIterateOnReleases(c)
    \/ DagLoop
    \/ PoolStep
    \/ DagGroupReturn

SpecDag == InitDag /\ [][NextDag]_vars

\* The forward run: scatterGatherReleases over releases that declare needs.
NextForward ==
    \/ \E c \in Concurrencies : ScatterGatherReleases(c)
    \/ PoolStep
    \/ IterateReturn

SpecForward == InitForward /\ [][NextForward]_vars

----------------------------------------------------------------------------
\* desiredStateLoader.Load (desired_state_file_loader.go).

\* The values of the --kube-context and --namespace options and of the
\* attributes helmDefaults.kubeContext and namespace of a state file.
OptionValues == {"", "option"}
FileValues == {"", "file"}

\* The states loadFileWithOverrides returns: n releases and m sub-helmfiles
\* in the order of the file.
FileStates ==
    {[Releases     |-> [i \in 1..n |-> ReleaseSpec(i, {}, "nil")],
      Helmfiles    |-> [i \in 1..m |-> i],
      HelmDefaults |-> [KubeContext |-> k, Tillerless |-> FALSE],
      Namespace    |-> ns] :
        n \in 0..MaxLoadReleases, m \in 0..MaxHelmfiles,
        k \in FileValues, ns \in FileValues}

Loaders ==
    {[KubeContext |-> k, namespace |-> ns, Reverse |-> r] :
        k \in OptionValues, ns \in OptionValues, r \in BOOLEAN}

\* desired_state_file_loader.go:64-66: rev, the less function given to
\* sort.Slice; i and j are positions in the slice.
rev(i, j) == j < i

Swap(s, i, j) == [s EXCEPT ![i] = s[j], ![j] = s[i]]

\* sort.Slice in the Go 1.13 of the build (src/Dockerfile:1), for a slice of
\* at most 12 elements: quickSort_func does a ShellSort pass with gap 6 ...
RECURSIVE ShellPass(_, _)
ShellPass(s, i) ==
    IF i > Len(s) THEN s
    ELSE ShellPass(IF rev(i, i - 6) THEN Swap(s, i, i - 6) ELSE s, i + 1)

\* ... and then insertionSort_func: the inner loop, which moves the element
\* at position j down while less(j, j-1) holds,
RECURSIVE InsertDown(_, _)
InsertDown(s, j) ==
    IF j > 1 /\ rev(j, j - 1) THEN InsertDown(Swap(s, j, j - 1), j - 1) ELSE s

\* and the outer loop over the positions.
RECURSIVE InsertionSort(_, _)
InsertionSort(s, i) ==
    IF i > Len(s) THEN s ELSE InsertionSort(InsertDown(s, i), i + 1)

\* desired_state_file_loader.go:67-68: sort.Slice(slice, rev)
SortSliceRev(s) ==
    IF Len(s) > 1 THEN InsertionSort(ShellPass(s, 7), 2) ELSE s

\* Conflict that lets the option override the attribute silently.
Conflict_Never(option, attribute) == FALSE

\* desired_state_file_loader.go:71-72 and 78-79: the option is given and
\* the state file sets the attribute too.
Conflict(option, attribute) == option # "" /\ attribute # ""

\* desired_state_file_loader.go:63-69
ApplyReverse(loader, state) ==
    IF loader.Reverse
    THEN [state EXCEPT !.Releases = SortSliceRev(@), !.Helmfiles = SortSliceRev(@)]
    ELSE state

\* desired_state_file_loader.go:58-85: what Load returns for the state the
\* file holds; fileErr says that loading the file failed.
LoadResult(loader, file, fileErr) ==
    LET s1 == ApplyReverse(loader, file)
        s2 == IF loader.KubeContext # ""
              THEN [s1 EXCEPT !.HelmDefaults.KubeContext = loader.KubeContext]
              ELSE s1
        s3 == IF loader.namespace # ""
              THEN [s2 EXCEPT !.Namespace = loader.namespace]
              ELSE s2
    IN IF fileErr
       THEN [called |-> TRUE, st |-> <<>>, err |-> "load"]
       ELSE IF Conflict(loader.KubeContext, s1.HelmDefaults.KubeContext)
       THEN [called |-> TRUE, st |-> <<>>, err |-> "kube-context"]
       ELSE IF Conflict(loader.namespace, s2.Namespace)
       THEN [called |-> TRUE, st |-> <<>>, err |-> "namespace"]
       ELSE [called |-> TRUE, st |-> <<s3>>, err |-> "nil"]

InitLoad ==
    /\ st \in FileStates
    /\ ld \in Loaders
    /\ loaded = NotLoaded
    /\ pc = "idle"
    /\ call = [fn |-> "none", concurrency |-> 0]
    /\ plan = <<>>
    /\ groupIndex = 0
    /\ pool = <<>>
    /\ ret = <<>>

\* desired_state_file_loader.go:35-86
Load(fileErr) ==
    /\ pc = "idle"
    /\ loaded' = LoadResult(ld, st, fileErr)
    /\ pc' = "returned"
    /\ UNCHANGED <<ld, st, call, plan, groupIndex, pool, ret>>

NextLoad == \E fileErr \in BOOLEAN : Load(fileErr)

SpecLoad == InitLoad /\ [][NextLoad]_vars

----------------------------------------------------------------------------
\* Vocabulary of the properties.

InputNames(p) == {p.inputs[i].Name : i \in DOMAIN p.inputs}

\* The entries of a list of results or errors that carry an error.
Failures(s) == SelectSeq(s, LAMBDA e : e.err # "nil")

\* The names of the releases whose operation has returned an error.
FailedNames(p) == {e.release : e \in Range(Failures(p.completed))}

\* How many entries of a list name release x.
Count(s, x) == Cardinality({i \in DOMAIN s : s[i].release = x})

\* The workers of a run that are inside do.
InFlight(p) == {w \in DOMAIN p.worker : p.worker[w].pc = "do"}

AnyReleaseTrue == \E i \in DOMAIN st.Releases : st.Releases[i].Tillerless = "true"
AnyReleaseNil  == \E i \in DOMAIN st.Releases : st.Releases[i].Tillerless = "nil"

\* Some declared release or the defaults ask for exclusive access.
ExclusiveRequested == AnyReleaseTrue \/ st.HelmDefaults.Tillerless

\* Some declared release asks for exclusive access itself, or inherits it.
ExclusiveApplies == AnyReleaseTrue \/ (st.HelmDefaults.Tillerless /\ AnyReleaseNil)

----------------------------------------------------------------------------
\* C1: once the aggregator of a pool run has left its loop, the operation has
\* been invoked exactly once for each input release and for no other, and
\* the aggregator has received exactly one outcome per input release, n in
\* all, whatever the operations returned; no release is ever invoked twice.
C1_OncePerInput ==
    \A r \in Runs :
        LET p == pool[r]
        IN /\ \A x \in Names : p.invoked[x] <= 1 /\ p.outcomes[x] <= p.invoked[x]
           /\ p.sg \in {"wait", "returned"} =>
                 /\ p.received = Len(p.inputs)
                 /\ Len(p.arrived) = Len(p.inputs)
                 /\ \A x \in Names :
                       /\ p.invoked[x] = IF x \in InputNames(p) THEN 1 ELSE 0
                       /\ p.outcomes[x] = p.invoked[x]

C1_Witness ==
    \E r \in Runs :
        /\ pool[r].sg = "returned"
        /\ Len(pool[r].inputs) >= 2
        /\ FailedNames(pool[r]) # {}
        /\ FailedNames(pool[r]) # InputNames(pool[r])

\* C2: when scatterGather has returned, all n outcomes have been received
\* and every worker it started has terminated.
C2_ReturnAfterJoin ==
    \A r \in Runs :
        pool[r].sg = "returned" =>
            /\ pool[r].received = Len(pool[r].inputs)
            /\ \A w \in DOMAIN pool[r].worker : pool[r].worker[w].pc = "done"

C2_Witness ==
    \E r \in Runs :
        /\ pool[r].sg = "returned"
        /\ pool[r].concurrency >= 2
        /\ Len(pool[r].inputs) >= 2

\* C3: when no declared release and not the defaults ask for exclusive
\* access, the number of workers started is n if c < 1 or c > n, else c.
C3_ClampedWorkers ==
    \A r \in Runs :
        LET c == call.concurrency
            n == Len(pool[r].inputs)
        IN ~ExclusiveRequested =>
              Cardinality(DOMAIN pool[r].worker) = IF c < 1 \/ c > n THEN n ELSE c

C3_Witness ==
    \E r \in Runs :
        /\ ~ExclusiveRequested
        /\ Len(pool[r].inputs) >= 1
        /\ call.concurrency > Len(pool[r].inputs)
        /\ Cardinality(DOMAIN pool[r].worker) = Len(pool[r].inputs)

\* C4 as stated: if some declared release or the defaults ask for exclusive
\* access, the resolved concurrency is 1.
C4_Original ==
    \A r \in Runs : ExclusiveRequested => pool[r].concurrency = 1

\* C4, amended: if some declared release asks for exclusive access itself,
\* or the defaults ask for it and some declared release has no override of
\* its own, the resolved concurrency is 1 whatever c and n are.
C4_ExclusiveForcesOne ==
    \A r \in Runs :
        ExclusiveApplies =>
            /\ pool[r].concurrency = 1
            /\ Cardinality(DOMAIN pool[r].worker) = 1

C4_Witness ==
    \E r \in Runs :
        /\ ~AnyReleaseTrue
        /\ ExclusiveApplies
        /\ call.concurrency >= 2
        /\ Len(pool[r].inputs) >= 2
        /\ pool[r].concurrency = 1

\* C5: at every moment of a pool run the number of operations in flight is
\* at most the resolved concurrency, and at most one when exclusive access
\* applies.
C5_BoundedInFlight ==
    \A r \in Runs :
        /\ Cardinality(InFlight(pool[r])) <= pool[r].concurrency
        /\ ExclusiveApplies => Cardinality(InFlight(pool[r])) <= 1

C5_Witness ==
    \E r \in Runs :
        /\ pool[r].concurrency >= 2
        /\ Cardinality(InFlight(pool[r])) = pool[r].concurrency

\* C6: the error list a pool run returns has exactly one entry, naming the
\* release and carrying its error, for each input release whose operation
\* returned an error, none for the others, and is nil exactly when every
\* operation succeeded.
C6_ErrorsReported ==
    (pc = "returned" /\ pool # <<>>) =>
        LET p == pool[Len(pool)]
        IN /\ \A x \in Names :
                 Count(ret, x) = IF x \in FailedNames(p) THEN 1 ELSE 0
           /\ \A i \in DOMAIN ret : ret[i] \in Range(p.completed)
           /\ (ret = <<>>) <=> (FailedNames(p) = {})

C6_Witness ==
    /\ pc = "returned"
    /\ pool # <<>>
    /\ Len(pool[Len(pool)].inputs) = 2
    /\ Cardinality(FailedNames(pool[Len(pool)])) = 1
    /\ Len(ret) = 1

\* C7 as stated: the error list is in the order in which the failing
\* operations finished.
C7_Original ==
    (pc = "returned" /\ pool # <<>>) =>
        ret = Failures(pool[Len(pool)].completed)

\* C7, amended: the error list is in the order in which the aggregator
\* received the failing outcomes, which need be neither the order of the
\* inputs nor the order in which the operations finished.
C7_ArrivalOrder ==
    (pc = "returned" /\ pool # <<>>) =>
        ret = Failures(pool[Len(pool)].arrived)

C7_Witness ==
    /\ pc = "returned"
    /\ Len(ret) >= 2
    /\ ret[1].release > ret[2].release
    /\ ret = Failures(pool[Len(pool)].arrived)

----------------------------------------------------------------------------
\* The dependency-aware run.

\* The names a pool run was given, in order.
InputList(p) == [i \in DOMAIN p.inputs |-> p.inputs[i].Name]

\* The operation on release x has been started / has returned, in any run.
Started(x)  == \E r \in Runs : pool[r].invoked[x] > 0
Finished(x) == \E r \in Runs : \E i \in DOMAIN pool[r].completed :
                  pool[r].completed[i].release = x

\* C8: groups are processed one at a time: while a later group's pool run
\* exists, every earlier run has returned, all its operations have completed
\* and all its workers have terminated, so operations of two groups never
\* overlap.
C8_GroupsOneAtATime ==
    \A r1, r2 \in Runs :
        r1 < r2 =>
            /\ pool[r1].sg = "returned"
            /\ Len(pool[r1].completed) = Len(pool[r1].inputs)
            /\ \A w \in DOMAIN pool[r1].worker : pool[r1].worker[w].pc = "done"
            /\ ~(InFlight(pool[r1]) # {} /\ InFlight(pool[r2]) # {})

C8_Witness ==
    /\ Len(pool) >= 2
    /\ pool[1].concurrency >= 2
    /\ InFlight(pool[2]) # {}

\* C9: a group with a failed release is the last group visited and its error
\* list is what the run returns, so no release of a later-visited group is
\* ever invoked; a run in which no release failed visits every group.
C9_StopAtFailedGroup ==
    /\ \A r \in Runs : FailedNames(pool[r]) # {} =>
          /\ r = Len(pool)
          /\ \A k \in 1..(Len(plan) - r) : \A i \in DOMAIN plan[k] :
                ~Started(plan[k][i])
    /\ (pc = "returned" /\ pool # <<>>) =>
          LET p == pool[Len(pool)]
          IN IF FailedNames(p) # {}
             THEN /\ ret = p.errs
                  /\ {ret[i].release : i \in DOMAIN ret} = FailedNames(p)
             ELSE /\ ret = <<>>
                  /\ Len(pool) = Len(plan)

C9_Witness ==
    /\ pc = "returned"
    /\ Len(plan) >= 2
    /\ Len(pool) = 1
    /\ Len(pool[1].inputs) >= 2
    /\ Len(ret) = 1

\* C10: the k-th pool run of a reverse run is over the k-th group from the
\* end of the plan, and for every release R and every release D that R needs
\* the operation on D is started only after the operation on R has returned.
C10_ReverseOrder ==
    /\ \A r \in Runs : InputList(pool[r]) = plan[Len(plan) - r + 1]
    /\ \A i \in DOMAIN st.Releases : \A d \in st.Releases[i].Needs :
          (d \in Names /\ Started(d)) => Finished(st.Releases[i].Name)

C10_Witness ==
    /\ Len(plan) = 3
    /\ Len(pool) = 3
    /\ InputList(pool[1]) = plan[3]
    /\ InputList(pool[3]) = plan[1]
    /\ \E i \in DOMAIN st.Releases : \E d \in st.Releases[i].Needs : Started(d)

----------------------------------------------------------------------------
\* C11: in a forward run, for every release R and every release D that R
\* needs, the operation on D has returned before the operation on R starts.
C11_Original ==
    \A i \in DOMAIN st.Releases : \A d \in st.Releases[i].Needs :
        (d \in Names /\ Started(st.Releases[i].Name)) => Finished(d)

----------------------------------------------------------------------------
\* The dependency graph as declared, read off the releases.

Declared == {st.Releases[i].Name : i \in DOMAIN st.Releases}

NeedsOfName(x) ==
    UNION {st.Releases[i].Needs : i \in {j \in DOMAIN st.Releases : st.Releases[j].Name = x}}

NeedsResolved == \A x \in Declared : NeedsOfName(x) \subseteq Declared

\* The names reached from the set S along at most k needs.
RECURSIVE ReachIn(_, _)
ReachIn(S, k) ==
    IF k = 0 THEN S
    ELSE ReachIn(S \cup UNION {NeedsOfName(x) : x \in S \cap Declared}, k - 1)

Cyclic == \E x \in Declared : x \in ReachIn(NeedsOfName(x), Cardinality(Declared))

\* The places of release x in the plan, and the group of its first place.
PlacesOf(x) == {<<k, i>> \in (DOMAIN plan) \X Names :
                   i \in DOMAIN plan[k] /\ plan[k][i] = x}
GroupOf(x) == CHOOSE k \in DOMAIN plan : \E i \in DOMAIN plan[k] : plan[k][i] = x

\* dagAwareReverseIterateOnReleases has planned, and the plan has failed.
Planned == call.fn = "dagAwareReverseIterateOnReleases" /\ pc # "idle"
StructuralFailure ==
    /\ Planned
    /\ pc = "returned"
    /\ pool = <<>>
    /\ Len(ret) = 1
    /\ ret[1].err \in {"cycle", "unresolved"}

\* C12: for an acyclic graph whose needs are all declared, planning succeeds,
\* every declared release is in exactly one place of the plan, the plan holds
\* nothing else and no empty group, and every need of a release lies in a
\* strictly earlier group.
C12_PlanIsLayeredPermutation ==
    (Planned /\ NeedsResolved /\ ~Cyclic) =>
        /\ ~StructuralFailure
        /\ \A x \in Declared : Cardinality(PlacesOf(x)) = 1
        /\ \A k \in DOMAIN plan :
              plan[k] # <<>> /\ \A i \in DOMAIN plan[k] : plan[k][i] \in Declared
        /\ \A x \in Declared : \A d \in NeedsOfName(x) : GroupOf(d) < GroupOf(x)

C12_Witness ==
    /\ Planned
    /\ Len(st.Releases) = 3
    /\ NeedsOfName(1) = {}
    /\ NeedsOfName(2) = {1}
    /\ NeedsOfName(3) = {1}
    /\ plan = <<<<1>>, <<2, 3>>>>

\* C13: if the graph has a cycle or a release needs an undeclared id,
\* planning fails with no plan, the run returns that one structural error and
\* the operation is invoked for no release.
C13_StructuralErrorStopsRun ==
    (Planned /\ (Cyclic \/ ~NeedsResolved)) =>
        /\ StructuralFailure
        /\ plan = <<>>
        /\ \A x \in Names : ~Started(x)

C13_Witness ==
    /\ StructuralFailure
    /\ Len(st.Releases) = 2
    /\ NeedsOfName(1) = {2}
    /\ NeedsOfName(2) = {1}
    /\ ret[1].err = "cycle"

----------------------------------------------------------------------------
\* How often the operation was called on release x, over all pool runs, and
\* how often it returned.
RECURSIVE InvokedUpTo(_, _)
InvokedUpTo(x, r) == IF r = 0 THEN 0 ELSE pool[r].invoked[x] + InvokedUpTo(x, r - 1)
TotalInvoked(x) == InvokedUpTo(x, Len(pool))

RECURSIVE ReturnedUpTo(_, _)
ReturnedUpTo(x, r) ==
    IF r = 0 THEN 0 ELSE Count(pool[r].completed, x) + ReturnedUpTo(x, r - 1)
TotalReturned(x) == ReturnedUpTo(x, Len(pool))

\* The releases whose operation returned an error, in any pool run.
AllFailedNames == UNION {FailedNames(pool[r]) : r \in Runs}

\* C14: over a whole plan run the operation is called at most once on each
\* declared release, failed or not, and never on anything else.
C14_AtMostOncePerRelease ==
    \A x \in Names :
        /\ TotalInvoked(x) <= 1
        /\ TotalReturned(x) <= TotalInvoked(x)
        /\ x \notin Declared => TotalInvoked(x) = 0

C14_Witness ==
    /\ pc = "returned"
    /\ Len(plan) = 3
    /\ Len(pool) = 2
    /\ ret # <<>>
    /\ \E x \in Declared : x \in AllFailedNames /\ TotalInvoked(x) = 1
    /\ \E x \in Declared : TotalReturned(x) = 1 /\ x \notin AllFailedNames

\* C15: a plan run that has returned has returned nil exactly when planning
\* succeeded and every declared release was invoked and succeeded; otherwise
\* it has returned the structural error or the error list of the first
\* visited group with a failure; and once it has returned, its result stays
\* and no operation is invoked any more.
C15_Terminal ==
    /\ []((Planned /\ pc = "returned") =>
            /\ (ret = <<>>) <=>
                  /\ ~(Cyclic \/ ~NeedsResolved)
                  /\ \A x \in Declared :
                        TotalReturned(x) = 1 /\ x \notin AllFailedNames
            /\ ret # <<>> =>
                  \/ StructuralFailure
                  \/ /\ pool # <<>>
                     /\ ret = pool[Len(pool)].errs
                     /\ FailedNames(pool[Len(pool)]) # {}
                     /\ \A r \in Runs : r < Len(pool) => FailedNames(pool[r]) = {})
    /\ [][(Planned /\ pc = "returned") =>
            /\ pc' = "returned"
            /\ ret' = ret
            /\ DOMAIN pool' = DOMAIN pool
            /\ \A r \in Runs : pool'[r].invoked = pool[r].invoked]_vars

C15_Witness ==
    /\ Planned
    /\ pc = "returned"
    /\ ret = <<>>
    /\ Len(plan) >= 2
    /\ \A x \in Declared : TotalReturned(x) = 1

\* A release asks for exclusive access itself or through the defaults.
Requests(release) ==
    \/ release.Tillerless = "true"
    \/ release.Tillerless = "nil" /\ st.HelmDefaults.Tillerless

\* C16: a pool run none of whose releases asks for exclusive access still
\* runs with concurrency 1 when a declared release outside it asks for it.
C16_DecisionOverAllDeclared ==
    \A r \in Runs :
        LET p == pool[r]
        IN ( /\ \A i \in DOMAIN p.inputs : ~Requests(p.inputs[i])
             /\ \E j \in DOMAIN st.Releases :
                   /\ st.Releases[j].Name \notin InputNames(p)
                   /\ Requests(st.Releases[j]) )
           => (p.concurrency = 1 /\ Cardinality(DOMAIN p.worker) = 1)

C16_Witness ==
    \E r \in Runs :
        /\ Len(pool[r].inputs) >= 2
        /\ call.concurrency # 1
        /\ \A i \in DOMAIN pool[r].inputs : ~Requests(pool[r].inputs[i])
        /\ \E j \in DOMAIN st.Releases :
              /\ st.Releases[j].Name \notin InputNames(pool[r])
              /\ Requests(st.Releases[j])
        /\ pool[r].concurrency = 1

----------------------------------------------------------------------------
\* C17: with the run-wide default set, a pool run is forced to concurrency 1
\* exactly when some declared release has no override or overrides to true;
\* when every declared release overrides to false, or none is declared, the
\* concurrency is the clamped value the caller asked for.
C17_DefaultOnlyWithoutOverride ==
    \A r \in Runs :
        LET c == call.concurrency
            n == Len(pool[r].inputs)
        IN st.HelmDefaults.Tillerless =>
              pool[r].concurrency =
                  IF \E i \in DOMAIN st.Releases : st.Releases[i].Tillerless # "false"
                  THEN 1
                  ELSE IF c < 1 \/ c > n THEN n ELSE c

C17_Witness ==
    \E r \in Runs :
        /\ st.HelmDefaults.Tillerless
        /\ st.Releases # <<>>
        /\ \A i \in DOMAIN st.Releases : st.Releases[i].Tillerless = "false"
        /\ Len(pool[r].inputs) = 2
        /\ pool[r].concurrency = 2
        /\ Cardinality(InFlight(pool[r])) = 2

\* A pool run is over: scatterGather has returned, and the producer, every
\* worker and the aggregator have finished.
PoolRunOver(p) ==
    /\ p.sg = "returned"
    /\ p.closed
    /\ p.sent = Len(p.inputs)
    /\ p.received = Len(p.inputs)
    /\ \A w \in DOMAIN p.worker : p.worker[w].pc = "done"

\* C18: every pool run that is started, for any number of inputs, any
\* concurrency and any exclusive-access setting, eventually returns with
\* all its goroutines finished.
C18_PoolRunReturns ==
    (pc = "pool") ~> (pc = "returned" /\ \A r \in Runs : PoolRunOver(pool[r]))

C18_Witness ==
    /\ pc = "returned"
    /\ pool # <<>>
    /\ pool[1].inputs = <<>>
    /\ pool[1].concurrency = 1
    /\ PoolRunOver(pool[1])

----------------------------------------------------------------------------
\* Load has returned without an error of loading the file.
LoadedFile == loaded.called /\ loaded.err # "load"

KubeContextConflict == ld.KubeContext # "" /\ st.HelmDefaults.KubeContext # ""
NamespaceConflict == ld.namespace # "" /\ st.Namespace # ""

\* C19: Load returns an error and no state when the kube-context option and
\* helmDefaults.kubeContext are both set or the namespace option and
\* namespace are both set; otherwise it returns the state with each
\* non-empty option written into it and each attribute whose option is
\* empty as the file has it.
C19_ConflictingOverrideRejected ==
    LoadedFile =>
        IF KubeContextConflict \/ NamespaceConflict
        THEN loaded.st = <<>> /\ loaded.err \in {"kube-context", "namespace"}
        ELSE /\ loaded.err = "nil"
             /\ Len(loaded.st) = 1
             /\ loaded.st[1].HelmDefaults.KubeContext =
                   IF ld.KubeContext # "" THEN ld.KubeContext
                   ELSE st.HelmDefaults.KubeContext
             /\ loaded.st[1].Namespace =
                   IF ld.namespace # "" THEN ld.namespace ELSE st.Namespace

C19_Witness ==
    /\ LoadedFile
    /\ ld.KubeContext # ""
    /\ st.HelmDefaults.KubeContext = ""
    /\ NamespaceConflict
    /\ loaded.st = <<>>
    /\ loaded.err = "namespace"

\* The list s in the opposite order.
Reversed(s) == [i \in DOMAIN s |-> s[Len(s) + 1 - i]]

\* C20: with Reverse set Load returns the releases and the sub-helmfiles in
\* exactly the opposite of the order of the file, and with Reverse not set
\* in the order of the file.
C20_Original ==
    (LoadedFile /\ loaded.err = "nil") =>
        /\ loaded.st[1].Releases =
              IF ld.Reverse THEN Reversed(st.Releases) ELSE st.Releases
        /\ loaded.st[1].Helmfiles =
              IF ld.Reverse THEN Reversed(st.Helmfiles) ELSE st.Helmfiles

====
